---- MODULE Spec2Model ----
(***************************************************************************)
(* The calculation client of ACA-Calc: the Calculator component            *)
(* (handleCalculate, the result cache over localStorage, the SSE read      *)
(* loop, the blocking fallback) and the explanation request with its       *)
(* auto-trigger effect.                                                    *)
(***************************************************************************)
EXTENDS Integers, Sequences, FiniteSets, TLC

(***************************************************************************)
(* JavaScript values.  null / undefined is the empty tuple, a present      *)
(* value v is the one-element tuple <<v>>.                                 *)
(***************************************************************************)
Null == <<>>

Some(v) == <<v>>

Val(o) == o[1]

\* a || b on optional strings: the empty string and null are both falsy
OrElse(o, dflt) == IF o = Null \/ o = Some("") THEN dflt ELSE Val(o)

(***************************************************************************)
(* Requests (the data handed to handleCalculate) and the cache key.        *)
(***************************************************************************)
Household1 ==
  [age_head |-> 45, age_spouse |-> Null, dependent_ages |-> <<>>,
   state |-> "PA", county |-> "Lebanon County", zip_code |-> Null]

Household2 ==
  [age_head |-> 30, age_spouse |-> Some(30), dependent_ages |-> <<10>>,
   state |-> "CA", county |-> "Los Angeles County", zip_code |-> Some("90001")]

TogglesIra ==
  [show_ira |-> TRUE, show_700fpl |-> FALSE,
   show_additional_bracket |-> FALSE, show_simplified_bracket |-> FALSE]

Toggles700 ==
  [show_ira |-> FALSE, show_700fpl |-> TRUE,
   show_additional_bracket |-> FALSE, show_simplified_bracket |-> FALSE]

\* no scenario selected
TogglesNone ==
  [show_ira |-> FALSE, show_700fpl |-> FALSE,
   show_additional_bracket |-> FALSE, show_simplified_bracket |-> FALSE]

\* the request object: household fields and policy toggles in one flat object
MakeRequest(h, t) ==
  [age_head |-> h.age_head, age_spouse |-> h.age_spouse,
   dependent_ages |-> h.dependent_ages, state |-> h.state,
   county |-> h.county, zip_code |-> h.zip_code,
   show_ira |-> t.show_ira, show_700fpl |-> t.show_700fpl,
   show_additional_bracket |-> t.show_additional_bracket,
   show_simplified_bracket |-> t.show_simplified_bracket]

Requests ==
  {MakeRequest(Household1, TogglesIra), MakeRequest(Household1, Toggles700),
   MakeRequest(Household2, TogglesIra)}

\* JSON.stringify of the values keyData holds
JSONString(str) == "\"" \o str \o "\""

JSONNumberOrNull(o) == IF o = Null THEN "null" ELSE ToString(Val(o))

JSONStringOrNull(o) == IF o = Null THEN "null" ELSE JSONString(Val(o))

RECURSIVE JSONItems(_)
JSONItems(a) ==
  IF a = <<>> THEN ""
  ELSE IF Len(a) = 1 THEN ToString(a[1])
  ELSE ToString(a[1]) \o "," \o JSONItems(Tail(a))

JSONArray(a) == "[" \o JSONItems(a) \o "]"

\* the text of keyData's first five properties
KeyDataHead(data) ==
  "{\"age_head\":" \o ToString(data.age_head)
    \o ",\"age_spouse\":" \o JSONNumberOrNull(data.age_spouse)
    \o ",\"dependent_ages\":"
    \o JSONArray(IF data.dependent_ages = Null THEN <<>> ELSE data.dependent_ages)
    \o ",\"state\":" \o JSONString(data.state)
    \o ",\"county\":" \o JSONString(data.county)

\* a key that also carries a policy toggle
getCacheKeyWithToggle(data) ==
  "aca-calc-" \o KeyDataHead(data)
    \o ",\"zip_code\":" \o JSONStringOrNull(data.zip_code)
    \o ",\"show_ira\":" \o (IF data.show_ira THEN "true" ELSE "false") \o "}"

\* a key without the postal code
getCacheKeyDropsZip(data) ==
  "aca-calc-" \o KeyDataHead(data) \o "}"

\* getCacheKey: "aca-calc-" and the JSON text of keyData, whose properties
\* are written in the order of the object literal
getCacheKey(data) ==
  "aca-calc-" \o KeyDataHead(data)
    \o ",\"zip_code\":" \o JSONStringOrNull(data.zip_code) \o "}"

\* a policy scenario is selected
AnyToggle(data) ==
  \/ data.show_ira
  \/ data.show_700fpl
  \/ data.show_additional_bracket
  \/ data.show_simplified_bracket

CacheKeys == {getCacheKey(r) : r \in Requests}

(***************************************************************************)
(* Results of the Calculation Service.                                     *)
(***************************************************************************)
Result1 ==
  [fpl |-> 10, slcsp |-> 6, income |-> <<0, 20, 40>>,
   ptc_baseline |-> <<5, 3, 0>>, ptc_ira |-> <<6, 4, 2>>,
   ptc_700fpl |-> <<6, 5, 3>>]

Result2 ==
  [fpl |-> 12, slcsp |-> 7, income |-> <<0, 30, 60>>,
   ptc_baseline |-> <<7, 2, 0>>, ptc_ira |-> <<8, 5, 1>>,
   ptc_700fpl |-> <<8, 6, 4>>]

ServiceResults == {Result1, Result2}

\* Cache TTL: 24 hours in milliseconds
CACHE_TTL == 24 * 60 * 60 * 1000

(***************************************************************************)
(* The SSE wire format.  Text is a tuple of one-character strings.         *)
(***************************************************************************)
NL == "\n"

\* the separator of buffer.split("\n\n")
Delimiter == <<NL, NL>>

\* the prefix of line.startsWith("data: ") / line.slice(6)
Marker == <<"d", "a", "t", "a", ":", " ">>

\* The JSON payloads the service sends, abbreviated to short texts.
TextP10 == <<"{", "p", "1", "}">>

TextP55 == <<"{", "p", "5", "}">>

TextC1 == <<"{", "c", "1", "}">>

TextC2 == <<"{", "c", "2", "}">>

TextCN == <<"{", "c", "}">>

TextErr == <<"{", "e", "}">>

\* a payload that is not JSON
TextBad == <<"{", "?">>

\* the object a payload parses to: { progress?, message?, step?, result?, error? }
Event(progress, message, step, result, error) ==
  [progress |-> progress, message |-> message, step |-> step,
   result |-> result, error |-> error]

\* JSON.parse(text): Some(event), or Null when it throws a SyntaxError
ParseJSON(text) ==
  CASE text = TextP10 -> Some(Event(Some(10), Some("Loading data"), Null, Null, Null))
    [] text = TextP55 -> Some(Event(Some(55), Null, Null, Null, Null))
    [] text = TextC1 -> Some(Event(Some(100), Some("Complete"), Some("complete"), Some(Result1), Null))
    [] text = TextC2 -> Some(Event(Some(100), Some("Complete"), Some("complete"), Some(Result2), Null))
    [] text = TextCN -> Some(Event(Some(100), Null, Some("complete"), Null, Null))
    [] text = TextErr -> Some(Event(Null, Null, Some("error"), Null, Some("Simulation failed")))
    [] OTHER -> Null

PayloadTexts == {TextP10, TextP55, TextC1, TextC2, TextCN, TextErr, TextBad}

\* one event record on the wire: "data: <json>\n\n"
Record(text) == Marker \o text \o Delimiter

\* s.startsWith(p)
StartsWith(s, p) == Len(s) >= Len(p) /\ SubSeq(s, 1, Len(p)) = p

\* s.slice(n)
Slice(s, n) == SubSeq(s, n + 1, Len(s))

\* index of the first occurrence of the delimiter in s at or after i, 0 if none
RECURSIVE IndexOfDelimiter(_, _)
IndexOfDelimiter(s, i) ==
  IF i + 1 > Len(s) THEN 0
  ELSE IF s[i] = NL /\ s[i + 1] = NL THEN i
  ELSE IndexOfDelimiter(s, i + 1)

\* buffer.split("\n\n"): the pieces between the non-overlapping occurrences
\* of the delimiter, left to right; always at least one piece
RECURSIVE Split(_)
Split(s) ==
  LET i == IndexOfDelimiter(s, 1)
  IN  IF i = 0 THEN <<s>>
      ELSE <<SubSeq(s, 1, i - 1)>> \o Split(Slice(s, i + 1))

\* a split of each chunk on its own: every piece is taken for a record and
\* nothing is kept
SplitBufferPerChunk(buffer) ==
  [lines |-> Split(buffer), buffer |-> <<>>]

\* const lines = buffer.split("\n\n"); buffer = lines.pop() || "";
\* the complete lines and the text kept for the next chunk
SplitBuffer(buffer) ==
  LET lines == Split(buffer)
  IN  [lines |-> SubSeq(lines, 1, Len(lines) - 1), buffer |-> lines[Len(lines)]]

(***************************************************************************)
(* The result cache over localStorage.  store maps a key to Null (no item) *)
(* or to the stored item, the JSON text of { data, timestamp }, modelled   *)
(* by the record it parses to.                                             *)
(***************************************************************************)
\* a lookup that takes an item of age CACHE_TTL for expired
getFromCacheExpiresEarly(st, key, t, readOK) ==
  IF ~readOK \/ st[key] = Null THEN [data |-> Null, store |-> st]
  ELSE IF t - Val(st[key]).timestamp >= CACHE_TTL
       THEN [data |-> Null, store |-> [st EXCEPT ![key] = Null]]
       ELSE [data |-> Some(Val(st[key]).data), store |-> st]

\* a lookup that reports an expired item absent and leaves it in the store
getFromCacheKeepsExpired(st, key, t, readOK) ==
  IF ~readOK \/ st[key] = Null THEN [data |-> Null, store |-> st]
  ELSE IF t - Val(st[key]).timestamp > CACHE_TTL
       THEN [data |-> Null, store |-> st]
       ELSE [data |-> Some(Val(st[key]).data), store |-> st]

\* An item this code did not write is the pair of its kind and content:
\*   <<"text", s>>    a text that is not JSON: JSON.parse throws
\*   <<"json", s>>    the JSON text of null, a number, a string or an array
\*   <<"object", o>>  the JSON text of an object; o.data and o.timestamp are
\*                    Null when the object has no such property
IsForeign(item) == Len(item) = 2

\* getFromCache on such an item.  Destructuring null throws, and the catch
\* returns null; destructuring any other value gives undefined for the
\* properties it lacks.  Date.now() - undefined is NaN, and NaN > CACHE_TTL
\* is false.  The caller takes an undefined data for a miss.
getForeign(st, key, t) ==
  LET item == st[key]
  IN  IF item[1] # "object" THEN [data |-> Null, store |-> st]
      ELSE IF item[2].timestamp # Null /\ t - Val(item[2].timestamp) > CACHE_TTL
      THEN [data |-> Null, store |-> [st EXCEPT ![key] = Null]]
      ELSE [data |-> item[2].data, store |-> st]

\* a lookup that stamps the item it returns with the time of the read
getFromCacheRefreshes(st, key, t, readOK) ==
  IF ~readOK \/ st[key] = Null THEN [data |-> Null, store |-> st]
  ELSE IF IsForeign(st[key]) THEN getForeign(st, key, t)
  ELSE IF t - Val(st[key]).timestamp > CACHE_TTL
       THEN [data |-> Null, store |-> [st EXCEPT ![key] = Null]]
       ELSE [data |-> Some(Val(st[key]).data),
             store |-> [st EXCEPT ![key] =
                          Some([data |-> Val(st[key]).data, timestamp |-> t])]]

\* getFromCache(key) at time t; readOK is false when localStorage.getItem
\* throws.  Returns the data (Null for a miss) and the store it leaves.
getFromCache(st, key, t, readOK) ==
  IF ~readOK \/ st[key] = Null THEN [data |-> Null, store |-> st]
  ELSE IF IsForeign(st[key]) THEN getForeign(st, key, t)
  ELSE IF t - Val(st[key]).timestamp > CACHE_TTL
       THEN [data |-> Null, store |-> [st EXCEPT ![key] = Null]]
       ELSE [data |-> Some(Val(st[key]).data), store |-> st]

\* setInCache(key, data) at time t; writeOK is false when
\* localStorage.setItem throws (storage full or disabled)
setInCache(st, key, data, t, writeOK) ==
  IF writeOK
  THEN [st EXCEPT ![key] = Some([data |-> data, timestamp |-> t])]
  ELSE st

(***************************************************************************)
(* The body of the SSE record loop (for (const line of lines) ...).        *)
(* rs is what the loop has written so far: the progress and results state, *)
(* the store, and what this invocation has seen.                           *)
(***************************************************************************)
Progress(percent, message) == [percent |-> percent, message |-> message]

HandleLine(rs, line, key, t, writeOK) ==
  IF ~StartsWith(line, Marker) THEN rs
  ELSE
    LET parsed == ParseJSON(Slice(line, Len(Marker)))
    IN  IF parsed = Null THEN rs   \* SyntaxError, caught by the inner catch
        ELSE
          LET event == Val(parsed)
              isComplete == event.step = Some("complete") /\ event.result # Null
          IN  IF event.step = Some("error")
              \* throw new Error(event.error), caught by the inner catch
              THEN [rs EXCEPT !.errorRecords = @ + 1,
                              !.decoded = Append(@, event)]
              ELSE
                [rs EXCEPT
                   !.progress = IF event.progress # Null
                                THEN Progress(Val(event.progress), OrElse(event.message, ""))
                                ELSE @,
                   !.results = IF isComplete THEN event.result ELSE @,
                   !.store = IF isComplete
                             THEN setInCache(@, key, Val(event.result), t, writeOK)
                             ELSE @,
                   !.published = IF isComplete THEN event.result ELSE @,
                   !.progressEvents = IF event.progress # Null THEN @ + 1 ELSE @,
                   !.rejectedWrites = IF isComplete /\ ~writeOK THEN @ + 1 ELSE @,
                   !.decoded = Append(@, event)]

\* a record loop that a payload that does not parse ends
RECURSIVE ProcessLinesUntilMalformed(_, _, _, _, _)
ProcessLinesUntilMalformed(rs, lines, key, t, writeOK) ==
  IF lines = <<>> THEN rs
  ELSE IF /\ StartsWith(Head(lines), Marker)
          /\ ParseJSON(Slice(Head(lines), Len(Marker))) = Null
  THEN rs
  ELSE ProcessLinesUntilMalformed(HandleLine(rs, Head(lines), key, t, writeOK),
                                  Tail(lines), key, t, writeOK)

\* for (const line of lines) { ... }
RECURSIVE ProcessLines(_, _, _, _, _)
ProcessLines(rs, lines, key, t, writeOK) ==
  IF lines = <<>> THEN rs
  ELSE ProcessLines(HandleLine(rs, Head(lines), key, t, writeOK),
                    Tail(lines), key, t, writeOK)

\* one turn of the while loop on a chunk: buffer += decode(value), the
\* split, and the record loop
ReadTurn(buffer, rs, chunk, key, t, writeOK) ==
  LET split == SplitBuffer(buffer \o chunk)
  IN  [buffer |-> split.buffer,
       rs |-> ProcessLines(rs, split.lines, key, t, writeOK)]

(***************************************************************************)
(* State.                                                                  *)
(***************************************************************************)
VARIABLES
  results,         \* useState(null)
  formData,        \* useState(null)
  loading,         \* useState(false)
  progress,        \* useState({ percent: 0, message: "" })
  error,           \* useState(null)
  aiExplanation,   \* useState(null)
  aiLoading,       \* useState(false)
  pendingAiLoad,   \* useState(shouldAutoLoadAi())
  aiTriggeredRef,  \* useRef(false)
  store,           \* localStorage, the keys of the cache
  now,             \* Date.now()
  calls,           \* the handleCalculate invocations, in order of invocation
  explains,        \* the handleExplainWithAI invocations, in order
  ticks,           \* clock advances so far
  autoShow,        \* shouldAutoLoadAi() at mount: the URL had ai=1
  storageDisabled, \* access to localStorage is denied: getItem and setItem throw
  wire,            \* a stream of event records, as text
  cut,             \* a position in wire
  feeds,           \* what the read loop made of wire, whole and cut in two
  keying,          \* two request objects and the keys derived from them
  sharing          \* a form, the request and links made from it, and
                   \* what the links decode to

vars ==
  <<results, formData, loading, progress, error, aiExplanation, aiLoading,
    pendingAiLoad, aiTriggeredRef, store, now, calls, explains, ticks,
    autoShow, storageDisabled, wire, cut, feeds, keying, sharing>>

\* the variables of the component
component ==
  <<results, formData, loading, progress, error, aiExplanation, aiLoading,
    pendingAiLoad, aiTriggeredRef, store, now, calls, explains, ticks>>

\* fixed when the page loads
mount == <<autoShow, storageDisabled>>

\* used by the runs of the read loop and of the key derivation only
decoding == <<wire, cut, feeds, keying, sharing>>

\* what observers of the calculation see
observable == <<results, progress, error, loading>>

InitComponent ==
  /\ results = Null
  /\ formData = Null
  /\ loading = FALSE
  /\ progress = Progress(0, "")
  /\ error = Null
  /\ aiExplanation = Null
  /\ aiLoading = FALSE
  /\ autoShow \in BOOLEAN
  /\ pendingAiLoad = autoShow
  /\ storageDisabled \in BOOLEAN
  /\ aiTriggeredRef = FALSE
  /\ store = [k \in CacheKeys |-> Null]
  /\ now = 0
  /\ calls = <<>>
  /\ explains = <<>>
  /\ ticks = 0

Init ==
  /\ InitComponent
  /\ wire = <<>>
  /\ cut = 0
  /\ feeds = <<>>
  /\ keying = <<>>
  /\ sharing = <<>>

(***************************************************************************)
(* One handleCalculate invocation.  pc is the await it is suspended at:    *)
(*   "stream_fetch"    await fetch(.../api/calculate-stream)               *)
(*   "reading"         await reader.read()                                 *)
(*   "fallback_fetch"  await fetch(.../api/calculate) and its json()       *)
(*   "done"            returned                                            *)
(* buffer and reads are the locals of the read loop; the other fields      *)
(* record what the invocation did.                                         *)
(***************************************************************************)
NewCall(data, hit) ==
  [data |-> data,
   pc |-> IF hit THEN "done" ELSE "stream_fetch",
   hit |-> hit,                 \* served from the cache
   buffer |-> <<>>,             \* let buffer = ""
   reads |-> 0,                 \* chunks read so far
   entryAge |-> Null,           \* the age of the item found under the key
   streamDetail |-> Null,       \* the detail of a non-2xx stream response
   fallbackFetches |-> 0,       \* requests to /api/calculate issued
   fallbackResult |-> Null,     \* the body of a 2xx /api/calculate response
   progressEvents |-> 0,        \* records that carried a progress value
   rejectedWrites |-> 0,        \* setItem calls of this invocation that threw
   completeRecords |-> 0,       \* records with step "complete" and a result
   errorRecords |-> 0,          \* records with step "error"
   published |-> Null,          \* the last value it passed to setResults
   publishedError |-> Null]     \* the value it passed to setError

(***************************************************************************)
(* handleExplainWithAI.                                                    *)
(***************************************************************************)
\* the entry of valueArray at the income closest to targetIncome
RECURSIVE Closest(_, _, _, _)
Closest(targetIncome, incomeArray, i, best) ==
  IF i > Len(incomeArray) THEN best
  ELSE
    LET diff(j) == IF incomeArray[j] >= targetIncome
                   THEN incomeArray[j] - targetIncome
                   ELSE targetIncome - incomeArray[j]
    IN  IF best = 0 \/ diff(i) < diff(best)
        THEN Closest(targetIncome, incomeArray, i + 1, i)
        ELSE Closest(targetIncome, incomeArray, i + 1, best)

\* a lookup that takes the first entry of the grid
findValueAtIncomeFirst(targetIncome, incomeArray, valueArray) ==
  valueArray[1]

findValueAtIncome(targetIncome, incomeArray, valueArray) ==
  IF incomeArray = <<>> THEN valueArray[1]
  ELSE valueArray[Closest(targetIncome, incomeArray, 1, 0)]

\* the explainRequest object built from the results and formData of the render
ExplainRequest(r, f) ==
  [age_head |-> f.age_head, age_spouse |-> f.age_spouse,
   dependent_ages |-> f.dependent_ages, state |-> f.state, county |-> f.county,
   fpl |-> r.fpl, slcsp |-> r.slcsp,
   fpl_400_income |-> r.fpl * 4, fpl_700_income |-> r.fpl * 7,
   sample_income |-> r.fpl * 3,
   ptc_baseline_at_sample |-> findValueAtIncome(r.fpl * 3, r.income, r.ptc_baseline),
   ptc_ira_at_sample |-> findValueAtIncome(r.fpl * 3, r.income, r.ptc_ira),
   ptc_700fpl_at_sample |-> findValueAtIncome(r.fpl * 3, r.income, r.ptc_700fpl)]

\* one handleExplainWithAI invocation, suspended at its fetch or returned
NewExplain(r, f, auto, n) ==
  [request |-> ExplainRequest(Val(r), Val(f)),
   results |-> r,             \* the results of the render it closed over
   auto |-> auto,             \* called by the auto-trigger effect
   updateUrl |-> ~auto,       \* handleExplainWithAI(false) from the effect
   calc |-> n,                \* the calculations invoked before it
   failed |-> FALSE,          \* its try block threw
   pc |-> "fetch"]

\* the narrative the Explanation Service returns for a request
Explanation(request) ==
  [sections |-> <<"narrative">>,
   household_description |-> <<request.state, request.county, request.sample_income>>]

(***************************************************************************)
(* The auto-trigger effect, run after the render that follows a state      *)
(* change: r, f, a, l, p are the rendered results, formData,               *)
(* aiExplanation, aiLoading and pendingAiLoad, n the number of             *)
(* handleCalculate invocations so far.                                     *)
(***************************************************************************)
\* an effect guarded by the URL flag alone, with neither the latch nor
\* pendingAiLoad
AutoTriggerPerCalculation(r, f, a, l, p) ==
  autoShow /\ r # Null /\ f # Null /\ a = Null /\ ~l

\* the condition of the effect's if
AutoTrigger(r, f, a, l, p) ==
  p /\ r # Null /\ f # Null /\ a = Null /\ ~l /\ ~aiTriggeredRef

\* an effect that calls handleExplainWithAI(false) without setting the latch
RenderNoLatch(r, f, a, l, p, n) ==
  /\ results' = r
  /\ formData' = f
  /\ aiExplanation' = a
  /\ pendingAiLoad' = p
  /\ aiTriggeredRef' = aiTriggeredRef
  /\ IF AutoTrigger(r, f, a, l, p)
     THEN /\ aiLoading' = TRUE
          /\ explains' = Append(explains, NewExplain(r, f, TRUE, n))
     ELSE /\ aiLoading' = l
          /\ explains' = explains

\* Commit the render and run the effect; when it fires, the latch is set
\* and handleExplainWithAI(false) runs up to its fetch.
Render(r, f, a, l, p, n) ==
  /\ results' = r
  /\ formData' = f
  /\ aiExplanation' = a
  /\ pendingAiLoad' = p
  /\ IF AutoTrigger(r, f, a, l, p)
     THEN /\ aiTriggeredRef' = TRUE
          /\ aiLoading' = TRUE
          /\ explains' = Append(explains, NewExplain(r, f, TRUE, n))
     ELSE /\ aiTriggeredRef' = aiTriggeredRef
          /\ aiLoading' = l
          /\ explains' = explains

(***************************************************************************)
(* handleCalculate(data), from its first line to its first await (or to    *)
(* its return, on a cache hit).                                            *)
(***************************************************************************)
HandleCalculate(data) ==
  /\   LET key == getCacheKey(data)
           cached == getFromCache(store, key, now, ~storageDisabled)
           hit == cached.data # Null
           n == Len(calls) + 1
           age == IF store[key] = Null \/ IsForeign(store[key]) THEN Null
                  ELSE Some(now - Val(store[key]).timestamp)
       IN  /\ store' = cached.store
           /\ error' = Null
           /\ calls' = Append(calls,
                              [NewCall(data, hit) EXCEPT !.published = cached.data,
                                                         !.entryAge = age])
           /\ IF hit
              THEN /\ progress' = Progress(100, "Using cached results")
                   /\ loading' = FALSE
                   /\ Render(cached.data, Some(data), Null, aiLoading, pendingAiLoad, n)
              ELSE /\ progress' = Progress(0, "Starting calculation...")
                   /\ loading' = TRUE
                   /\ Render(Null, Some(data), Null, aiLoading, pendingAiLoad, n)
  /\ UNCHANGED <<now, ticks>>
  /\ UNCHANGED <<mount, decoding>>

(***************************************************************************)
(* The streaming request resolves.                                         *)
(*   "ok"      a 2xx response with a readable body                         *)
(*   "notok"   a non-2xx response: throw new Error(errorData.detail ...)   *)
(*   "nobody"  a 2xx response whose body has no reader: getReader() throws *)
(*   "reject"  fetch rejects                                               *)
(* Every outcome but "ok" lands in the outer catch, which issues the       *)
(* fallback request.                                                       *)
(***************************************************************************)
StreamOutcomes == {"ok", "notok", "nobody", "reject"}

\* errorData.detail of a non-2xx response
ServerDetail == "Invalid county"

\* catch (err) { ... await fetch(`${API_URL}/api/calculate`, ...) }
EnterFallback(c) ==
  [c EXCEPT !.pc = "fallback_fetch", !.buffer = <<>>, !.reads = 0,
            !.fallbackFetches = @ + 1]

StreamResponse(i) ==
  /\ calls[i].pc = "stream_fetch"
  /\ \E outcome \in StreamOutcomes :
       calls' = [calls EXCEPT ![i] =
                   IF outcome = "ok" THEN [@ EXCEPT !.pc = "reading"]
                   ELSE IF outcome = "notok"
                   THEN EnterFallback([@ EXCEPT !.streamDetail = Some(ServerDetail)])
                   ELSE EnterFallback(@)]
  /\ UNCHANGED <<results, formData, loading, progress, error, aiExplanation,
                 aiLoading, pendingAiLoad, aiTriggeredRef, store, now,
                 explains, ticks>>
  /\ UNCHANGED <<mount, decoding>>

(***************************************************************************)
(* reader.read() resolves with a chunk: one turn of the while loop.        *)
(* writeOK is false when the store rejects the writes of this turn.        *)
(***************************************************************************)
ReadChunk(i, chunk, writeOK) ==
  /\ calls[i].pc = "reading"
  /\   LET key == getCacheKey(calls[i].data)
           rs0 == [progress |-> progress, results |-> results, store |-> store,
                   published |-> calls[i].published,
                   errorRecords |-> calls[i].errorRecords,
                   progressEvents |-> calls[i].progressEvents,
                   rejectedWrites |-> calls[i].rejectedWrites,
                   decoded |-> <<>>]
           turn == ReadTurn(calls[i].buffer, rs0, chunk, key, now, writeOK)
           rs == turn.rs
           completed == Cardinality({j \in 1..Len(rs.decoded) :
                           /\ rs.decoded[j].step = Some("complete")
                           /\ rs.decoded[j].result # Null})
       IN  /\ progress' = rs.progress
           /\ store' = rs.store
           /\ calls' = [calls EXCEPT ![i] =
                          [@ EXCEPT !.buffer = turn.buffer,
                                    !.reads = @ + 1,
                                    !.published = rs.published,
                                    !.errorRecords = rs.errorRecords,
                                    !.progressEvents = rs.progressEvents,
                                    !.rejectedWrites = rs.rejectedWrites,
                                    !.completeRecords = @ + completed]]
           /\ Render(rs.results, formData, aiExplanation, aiLoading,
                     pendingAiLoad, Len(calls))
  /\ UNCHANGED <<loading, error, now, ticks>>
  /\ UNCHANGED <<mount, decoding>>

\* finally { setLoading(false); setProgress({ percent: 0, message: "" }) }
Finally ==
  /\ loading' = FALSE
  /\ progress' = Progress(0, "")

\* reader.read() resolves with done: break, then the finally block
ReadDone(i) ==
  /\ calls[i].pc = "reading"
  /\ calls' = [calls EXCEPT ![i] =
                 [@ EXCEPT !.pc = "done", !.buffer = <<>>, !.reads = 0]]
  /\ Finally
  /\ UNCHANGED <<results, formData, error, aiExplanation, aiLoading,
                 pendingAiLoad, aiTriggeredRef, store, now, explains, ticks>>
  /\ UNCHANGED <<mount, decoding>>

\* reader.read() rejects: the outer catch issues the fallback request
ReadReject(i) ==
  /\ calls[i].pc = "reading"
  /\ calls' = [calls EXCEPT ![i] = EnterFallback(@)]
  /\ UNCHANGED <<results, formData, loading, progress, error, aiExplanation,
                 aiLoading, pendingAiLoad, aiTriggeredRef, store, now,
                 explains, ticks>>
  /\ UNCHANGED <<mount, decoding>>

(***************************************************************************)
(* The fallback request to /api/calculate resolves.                        *)
(***************************************************************************)
\* whether localStorage.setItem succeeds: never when access is denied, and
\* not always otherwise (the storage may be full)
WriteOutcomes == IF storageDisabled THEN {FALSE} ELSE BOOLEAN

\* the message of the error thrown in the inner try, Null when it has none
FallbackFailures ==
  {Some("Invalid county"),       \* non-2xx with errorData.detail
   Some("Calculation failed"),   \* non-2xx without a detail
   Null}                         \* an error without a message

\* the success branch without setResults(result)
FallbackSuccessNoPublish(i, result, writeOK) ==
  /\ calls' = [calls EXCEPT ![i] =
                 [@ EXCEPT !.pc = "done", !.published = Some(result),
                           !.fallbackResult = Some(result),
                           !.rejectedWrites = IF writeOK THEN @ ELSE @ + 1]]
  /\ store' = setInCache(store, getCacheKey(calls[i].data), result, now, writeOK)
  /\ Finally
  /\ Render(results, formData, aiExplanation, aiLoading, pendingAiLoad,
            Len(calls))
  /\ UNCHANGED error

\* a success branch that writes under the key of the latest invocation
FallbackSuccessLatestKey(i, result, writeOK) ==
  /\ calls' = [calls EXCEPT ![i] =
                 [@ EXCEPT !.pc = "done", !.published = Some(result),
                           !.fallbackResult = Some(result),
                           !.rejectedWrites = IF writeOK THEN @ ELSE @ + 1]]
  /\ store' = setInCache(store, getCacheKey(calls[Len(calls)].data), result,
                         now, writeOK)
  /\ Finally
  /\ Render(Some(result), formData, aiExplanation, aiLoading, pendingAiLoad,
            Len(calls))
  /\ UNCHANGED error

\* a success branch in which a throwing setItem reaches catch (fallbackErr)
FallbackSuccessWriteFatal(i, result, writeOK) ==
  /\ calls' = [calls EXCEPT ![i] =
                 [@ EXCEPT !.pc = "done", !.published = Some(result),
                           !.fallbackResult = Some(result),
                           !.rejectedWrites = IF writeOK THEN @ ELSE @ + 1,
                           !.publishedError =
                             IF writeOK THEN @ ELSE Some("QuotaExceededError")]]
  /\ store' = setInCache(store, getCacheKey(calls[i].data), result, now, writeOK)
  /\ Finally
  /\ Render(Some(result), formData, aiExplanation, aiLoading, pendingAiLoad,
            Len(calls))
  /\ error' = IF writeOK THEN error ELSE Some("QuotaExceededError")

\* const result = await response.json(); setResults(result);
\* setInCache(cacheKey, result); then the finally block
FallbackSuccess(i, result, writeOK) ==
  /\ calls' = [calls EXCEPT ![i] =
                 [@ EXCEPT !.pc = "done", !.published = Some(result),
                           !.fallbackResult = Some(result),
                           !.rejectedWrites = IF writeOK THEN @ ELSE @ + 1]]
  /\ store' = setInCache(store, getCacheKey(calls[i].data), result, now, writeOK)
  /\ Finally
  /\ Render(Some(result), formData, aiExplanation, aiLoading, pendingAiLoad,
            Len(calls))
  /\ UNCHANGED error

FallbackFailure(i, message) ==
  LET shown == OrElse(message, "An error occurred. Please try again.")
  IN  /\ calls' = [calls EXCEPT ![i] =
                     [@ EXCEPT !.pc = "done", !.publishedError = Some(shown)]]
      /\ error' = Some(shown)
      /\ Finally
      /\ UNCHANGED <<results, formData, aiExplanation, aiLoading,
                     pendingAiLoad, aiTriggeredRef, store, explains>>

FallbackResponse(i) ==
  /\ calls[i].pc = "fallback_fetch"
  /\ \/ \E result \in ServiceResults, writeOK \in WriteOutcomes :
          FallbackSuccess(i, result, writeOK)
     \/ \E message \in FallbackFailures : FallbackFailure(i, message)
  /\ UNCHANGED <<now, ticks>>
  /\ UNCHANGED <<mount, decoding>>

(***************************************************************************)
(* The Explain button: shown when results && !loading, disabled while      *)
(* aiLoading.  onClick passes the click event as updateUrl.                *)
(***************************************************************************)
ClickExplain ==
  /\ results # Null /\ ~loading /\ ~aiLoading
  /\ formData # Null                 \* if (!results || !formData) return
  /\ aiLoading' = TRUE
  /\ explains' = Append(explains, NewExplain(results, formData, FALSE, Len(calls)))
  /\ UNCHANGED <<results, formData, loading, progress, error, aiExplanation,
                 pendingAiLoad, aiTriggeredRef, store, now, calls, ticks>>
  /\ UNCHANGED <<mount, decoding>>

\* the message of the error thrown in handleExplainWithAI's try
ExplainFailures == {Some("Failed to generate explanation"), Null}

\* a response handler whose catch also drops the displayed results
ExplainResponseClearsResults(i) ==
  /\ explains[i].pc = "fetch"
  /\ aiLoading' = FALSE
  /\ pendingAiLoad' = FALSE
  /\ \/ /\ aiExplanation' = Some(Explanation(explains[i].request))
        /\ error' = error
        /\ results' = results
        /\ explains' = [explains EXCEPT ![i] = [@ EXCEPT !.pc = "done"]]
     \/ \E message \in ExplainFailures :
          /\ error' = Some(OrElse(message, "Failed to generate AI explanation"))
          /\ aiExplanation' = aiExplanation
          /\ results' = Null
          /\ explains' = [explains EXCEPT ![i] =
                            [@ EXCEPT !.pc = "done", !.failed = TRUE]]
  /\ UNCHANGED <<formData, loading, progress, aiTriggeredRef, store,
                 now, calls, ticks>>
  /\ UNCHANGED <<mount, decoding>>

\* the request to /api/explain resolves
ExplainResponse(i) ==
  /\ explains[i].pc = "fetch"
  /\ aiLoading' = FALSE              \* finally: setAiLoading(false)
  /\ pendingAiLoad' = FALSE          \* finally: setPendingAiLoad(false)
  /\ \/ /\ aiExplanation' = Some(Explanation(explains[i].request))
        /\ error' = error
        /\ explains' = [explains EXCEPT ![i] = [@ EXCEPT !.pc = "done"]]
     \/ \E message \in ExplainFailures :
          /\ error' = Some(OrElse(message, "Failed to generate AI explanation"))
          /\ aiExplanation' = aiExplanation
          /\ explains' = [explains EXCEPT ![i] =
                            [@ EXCEPT !.pc = "done", !.failed = TRUE]]
  \* the effect cannot fire in the render that follows: pendingAiLoad is false
  /\ UNCHANGED <<results, formData, loading, progress, aiTriggeredRef, store,
                 now, calls, ticks>>
  /\ UNCHANGED <<mount, decoding>>

\* the Dismiss button of the error box
DismissError ==
  /\ error # Null
  /\ error' = Null
  /\ UNCHANGED <<results, formData, loading, progress, aiExplanation,
                 aiLoading, pendingAiLoad, aiTriggeredRef, store, now, calls,
                 explains, ticks>>
  /\ UNCHANGED <<mount, decoding>>

\* onClose of the explanation modal
CloseExplanation ==
  /\ aiExplanation # Null
  /\ Render(results, formData, Null, aiLoading, pendingAiLoad, Len(calls))
  /\ UNCHANGED <<loading, progress, error, store, now, calls, ticks>>
  /\ UNCHANGED <<mount, decoding>>

\* the component renders again with no state change; the effect runs again
Rerender ==
  /\ Render(results, formData, aiExplanation, aiLoading, pendingAiLoad,
            Len(calls))
  /\ UNCHANGED <<loading, progress, error, store, now, calls, ticks>>
  /\ UNCHANGED <<mount, decoding>>

\* time passes
TickSteps == {1, CACHE_TTL}

Tick ==
  /\ ticks' = ticks + 1
  /\ \E d \in TickSteps : now' = now + d
  /\ UNCHANGED <<results, formData, loading, progress, error, aiExplanation,
                 aiLoading, pendingAiLoad, aiTriggeredRef, store, calls,
                 explains>>
  /\ UNCHANGED <<mount, decoding>>

\* The submit button of CalculatorForm: disabled while loading (and when no
\* policy toggle is set, which no request of Requests has); handleSubmit
\* calls onCalculate(submitData).
\* a submit button that stays enabled while loading
SubmitWhileLoading(data) ==
  /\ AnyToggle(data)
  /\ HandleCalculate(data)

Submit(data) ==
  /\ ~loading
  /\ AnyToggle(data)
  /\ HandleCalculate(data)

(***************************************************************************)
(* Specifications.  Each one is the component in an environment bounded    *)
(* the way its claims need.                                                *)
(***************************************************************************)
\* the steps of the running handleCalculate invocations, the service sending
\* chunks of the set chunks, at most maxReads per stream
CalcSteps(chunks, maxReads) ==
  \/ \E i \in 1..Len(calls) : StreamResponse(i)
  \/ \E i \in 1..Len(calls) :
       /\ calls[i].reads < maxReads
       /\ \E chunk \in chunks, writeOK \in WriteOutcomes :
            ReadChunk(i, chunk, writeOK)
  \/ \E i \in 1..Len(calls) : ReadDone(i)
  \/ \E i \in 1..Len(calls) : ReadReject(i)
  \/ \E i \in 1..Len(calls) : FallbackResponse(i)

\* whole records of every kind, a completion record without its delimiter,
\* and a delimiter alone
Chunks ==
  {Record(TextP10), Record(TextP55), Record(TextC1), Record(TextC2),
   Record(TextCN), Record(TextErr), Record(TextBad), Marker \o TextC1,
   Delimiter}

\* a progress record and the completion records
ShortChunks == {Record(TextP10), Record(TextC1), Record(TextC2)}

\* a completion record
AiChunks == {Record(TextC1)}

\* the page opened by a link without ai=1
InitPlain == Init /\ ~autoShow

\* chunks read per stream
MaxReads == 2

\* One calculation submitted through the form, in full.
NextStream ==
  \/ \E data \in Requests : calls = <<>> /\ Submit(data)
  \/ CalcSteps(Chunks, MaxReads)

SpecStream == InitPlain /\ [][NextStream]_vars

\* calculations submitted through the form, one after the other
MaxCalls == 2

\* chunks read per stream when several calculations run
MaxShortReads == 1

\* clock advances
MaxTicks == 2

\* Calculations through the form over time: the cache.
NextCache ==
  \/ \E data \in Requests : Len(calls) < MaxCalls /\ Submit(data)
  \/ CalcSteps(ShortChunks, MaxShortReads)
  \/ ticks < MaxTicks /\ Tick

SpecCache == InitPlain /\ [][NextCache]_vars

\* calculations and clicks on Explain in the runs with explanations
MaxAiCalls == 2

MaxExplains == 2

\* Calculations through the form and explanations.
NextAi ==
  \/ \E data \in Requests : Len(calls) < MaxAiCalls /\ Submit(data)
  \/ CalcSteps(AiChunks, MaxShortReads)
  \/ Len(explains) < MaxExplains /\ ClickExplain
  \/ \E i \in 1..Len(explains) : ExplainResponse(i)
  \/ DismissError
  \/ CloseExplanation
  \/ Rerender

SpecAi == Init /\ [][NextAi]_vars

\* invocations of the handler
MaxReentrant == 2

\* The handler on its own: onCalculate is called again while an earlier
\* invocation is still suspended.
NextReentrant ==
  \/ \E data \in Requests : Len(calls) < MaxReentrant /\ HandleCalculate(data)
  \/ CalcSteps(ShortChunks, MaxShortReads)

SpecReentrant == InitPlain /\ [][NextReentrant]_vars

\* what a caller of onCalculate may pass: the requests of the form and one
\* with no scenario selected
HandlerInputs == Requests \cup {MakeRequest(Household1, TogglesNone)}

\* One invocation of the handler with any request object.
NextHandler ==
  \/ \E data \in HandlerInputs : calls = <<>> /\ HandleCalculate(data)
  \/ CalcSteps(ShortChunks, MaxShortReads)

SpecHandler == InitPlain /\ [][NextHandler]_vars

(***************************************************************************)
(* The cache over a store that holds items this code did not write.        *)
(***************************************************************************)
ForeignItems ==
  {<<"text", "aca">>,
   <<"json", "null">>,
   <<"json", "5">>,
   <<"object", [data |-> Null, timestamp |-> Some(0)]>>,
   <<"object", [data |-> Some(Result2), timestamp |-> Null]>>,
   <<"object", [data |-> Null, timestamp |-> Null]>>}

\* another script of the origin, or an older version of the page, stores an
\* item under a key of the cache
ForeignWrite(key, item) ==
  /\ store[key] = Null
  /\ store' = [store EXCEPT ![key] = item]
  /\ UNCHANGED <<results, formData, loading, progress, error, aiExplanation,
                 aiLoading, pendingAiLoad, aiTriggeredRef, now, calls,
                 explains, ticks>>
  /\ UNCHANGED <<mount, decoding>>

\* clock advances in the runs with foreign items
MaxStoreTicks == 1

\* the page opened by a link without ai=1, storage denied or not
NextStore ==
  \/ \E key \in CacheKeys, item \in ForeignItems :
       calls = <<>> /\ ForeignWrite(key, item)
  \/ \E data \in Requests : calls = <<>> /\ Submit(data)
  \/ CalcSteps(AiChunks, MaxShortReads)
  \/ ticks < MaxStoreTicks /\ Tick

SpecStore == InitPlain /\ [][NextStore]_vars

(***************************************************************************)
(* The read loop on its own: a stream of records is fed to it whole, and   *)
(* cut in two chunks at a position.                                        *)
(***************************************************************************)
\* records per stream
MaxRecords == 2

\* the text of the records with the payloads texts
RECURSIVE WireOf(_)
WireOf(texts) ==
  IF texts = <<>> THEN <<>> ELSE Record(Head(texts)) \o WireOf(Tail(texts))

Wires ==
  {WireOf(texts) : texts \in UNION {[1..n -> PayloadTexts] : n \in 1..MaxRecords}}

\* what the loop has written when the stream starts
FreshRead ==
  [progress |-> Progress(0, "Starting calculation..."), results |-> Null,
   store |-> [k \in CacheKeys |-> Null], published |-> Null,
   errorRecords |-> 0, progressEvents |-> 0, rejectedWrites |-> 0,
   decoded |-> <<>>]

FeedKey == getCacheKey(MakeRequest(Household1, TogglesIra))

InitChunk ==
  /\ InitComponent
  /\ ~autoShow
  /\ ~storageDisabled
  /\ wire \in Wires
  /\ cut \in 1..(Len(wire) - 1)
  /\ feeds = [whole |-> Null, left |-> Null, parts |-> Null]
  /\ keying = <<>>
  /\ sharing = <<>>

\* reader.read() yields the whole stream as one chunk
FeedWhole ==
  /\ feeds.whole = Null
  /\ feeds' = [feeds EXCEPT !.whole =
                 Some(ReadTurn(<<>>, FreshRead, wire, FeedKey, now, TRUE))]
  /\ UNCHANGED <<component, mount, wire, cut, keying, sharing>>

\* reader.read() yields the text before the cut
FeedLeft ==
  /\ feeds.left = Null
  /\ feeds' = [feeds EXCEPT !.left =
                 Some(ReadTurn(<<>>, FreshRead, SubSeq(wire, 1, cut), FeedKey,
                               now, TRUE))]
  /\ UNCHANGED <<component, mount, wire, cut, keying, sharing>>

\* reader.read() yields the text after the cut
FeedRight ==
  /\ feeds.left # Null
  /\ feeds.parts = Null
  /\ feeds' = [feeds EXCEPT !.parts =
                 Some(ReadTurn(Val(feeds.left).buffer, Val(feeds.left).rs,
                               SubSeq(wire, cut + 1, Len(wire)), FeedKey, now,
                               TRUE))]
  /\ UNCHANGED <<component, mount, wire, cut, keying, sharing>>

NextChunk ==
  \/ FeedWhole
  \/ FeedLeft
  \/ FeedRight

SpecChunk == InitChunk /\ [][NextChunk]_vars

(***************************************************************************)
(* The key derivation on its own.  A request object is the sequence of its *)
(* properties, <<name, value>> pairs in insertion order; getCacheKey reads *)
(* the properties by name.                                                 *)
(***************************************************************************)
\* the fields of keyData
KeyFields ==
  {"age_head", "age_spouse", "dependent_ages", "state", "county", "zip_code"}

ToggleFields ==
  {"show_ira", "show_700fpl", "show_additional_bracket",
   "show_simplified_bracket"}

\* the order of the properties in submitData
FormOrder ==
  <<"age_head", "age_spouse", "dependent_ages", "state", "county", "zip_code",
    "show_ira", "show_700fpl", "show_additional_bracket",
    "show_simplified_bracket">>

Reverse(s) == [i \in 1..Len(s) |-> s[Len(s) + 1 - i]]

\* insertion orders: submitData's, its reverse, and the toggles first
FieldOrders ==
  {FormOrder, Reverse(FormOrder),
   SubSeq(FormOrder, 7, 10) \o SubSeq(FormOrder, 1, 6)}

\* households that differ from Household2 in one key field
KeyHouseholds ==
  {Household2,
   [Household2 EXCEPT !.age_head = 31],
   [Household2 EXCEPT !.age_spouse = Null],
   [Household2 EXCEPT !.age_spouse = Some(31)],
   [Household2 EXCEPT !.dependent_ages = <<>>],
   [Household2 EXCEPT !.dependent_ages = <<11>>],
   [Household2 EXCEPT !.dependent_ages = <<10, 5>>],
   [Household2 EXCEPT !.dependent_ages = <<5, 10>>],
   [Household2 EXCEPT !.state = "PA"],
   [Household2 EXCEPT !.county = "Lebanon County"],
   [Household2 EXCEPT !.zip_code = Null],
   [Household2 EXCEPT !.zip_code = Some("90002")]}

\* the object with the properties of the request in the given order
ObjectOf(request, order) ==
  [i \in 1..Len(order) |-> <<order[i], request[order[i]]>>]

RequestObjects ==
  {ObjectOf(MakeRequest(h, t), o) :
     h \in KeyHouseholds, t \in {TogglesIra, Toggles700}, o \in FieldOrders}

\* obj[name]
Prop(obj, name) ==
  obj[CHOOSE i \in 1..Len(obj) : obj[i][1] = name][2]

\* the object as the property reads of the code see it
Read(obj) ==
  [name \in {obj[i][1] : i \in 1..Len(obj)} |-> Prop(obj, name)]

InitKey ==
  /\ InitComponent
  /\ ~autoShow
  /\ ~storageDisabled
  /\ wire = <<>>
  /\ cut = 0
  /\ feeds = <<>>
  /\ keying \in [r1 : RequestObjects, r2 : RequestObjects, keys : {Null}]
  /\ sharing = <<>>

\* const cacheKey = getCacheKey(data), for both objects
DeriveKeys ==
  /\ keying.keys = Null
  /\ keying' = [keying EXCEPT !.keys =
                  Some(<<getCacheKey(Read(keying.r1)),
                         getCacheKey(Read(keying.r2))>>)]
  /\ UNCHANGED <<component, mount, wire, cut, feeds, sharing>>

NextKey == DeriveKeys

SpecKey == InitKey /\ [][NextKey]_vars

(***************************************************************************)
(* The read loop on a stream with payloads that do not parse: the stream   *)
(* is fed as it is, and with those records left out.                       *)
(***************************************************************************)
\* records per stream
MaxSkipRecords == 3

\* the records whose payload parses
WellFormed(texts) == SelectSeq(texts, LAMBDA text : ParseJSON(text) # Null)

InitSkip ==
  /\ InitComponent
  /\ ~autoShow
  /\ ~storageDisabled
  /\ cut = 0
  /\ keying = <<>>
  /\ sharing = <<>>
  /\ \E n \in 1..MaxSkipRecords :
       \E texts \in [1..n -> PayloadTexts] :
         /\ wire = WireOf(texts)
         /\ feeds = [texts |-> texts, whole |-> Null, clean |-> Null]

\* the stream as the service sent it
FeedStream ==
  /\ feeds.whole = Null
  /\ feeds' = [feeds EXCEPT !.whole =
                 Some(ReadTurn(<<>>, FreshRead, wire, FeedKey, now, TRUE))]
  /\ UNCHANGED <<component, mount, wire, cut, keying, sharing>>

\* the stream without the records whose payload does not parse
FeedWellFormed ==
  /\ feeds.clean = Null
  /\ feeds' = [feeds EXCEPT !.clean =
                 Some(ReadTurn(<<>>, FreshRead, WireOf(WellFormed(feeds.texts)),
                               FeedKey, now, TRUE))]
  /\ UNCHANGED <<component, mount, wire, cut, keying, sharing>>

NextSkip ==
  \/ FeedStream
  \/ FeedWellFormed

SpecSkip == InitSkip /\ [][NextSkip]_vars

(***************************************************************************)
(* CalculatorForm and the shareable link.  A numeric input of the form     *)
(* holds Null (the empty string) or Some(n); the text input zip_code holds *)
(* a string.  The value of a numeric URL parameter is its text, a sequence *)
(* of characters; URLSearchParams returns the other values as they were    *)
(* set.                                                                    *)
(***************************************************************************)
DigitChars == <<"0", "1", "2", "3", "4", "5", "6", "7", "8", "9">>

\* String(n) for a non-negative integer
RECURSIVE NumberText(_)
NumberText(n) ==
  IF n < 10 THEN <<DigitChars[n + 1]>>
  ELSE NumberText(n \div 10) \o <<DigitChars[(n % 10) + 1]>>

IsDigit(c) == \E d \in 1..10 : DigitChars[d] = c

DigitValue(c) == (CHOOSE d \in 1..10 : DigitChars[d] = c) - 1

\* the value of the leading digits of text from position i on
RECURSIVE LeadingDigits(_, _, _)
LeadingDigits(text, i, acc) ==
  IF i > Len(text) \/ ~IsDigit(text[i]) THEN acc
  ELSE LeadingDigits(text, i + 1, acc * 10 + DigitValue(text[i]))

\* parseInt(text, 10) on the text of an unsigned number: Null for NaN (no
\* leading digit, or params.get returned null)
parseInt(text) ==
  IF text = Null \/ ~IsDigit(Val(text)[1]) THEN Null
  ELSE Some(LeadingDigits(Val(text), 1, 0))

\* a join that puts nothing between the ages
RECURSIVE JoinAgesNoSeparator(_)
JoinAgesNoSeparator(ages) ==
  IF ages = <<>> THEN <<>>
  ELSE NumberText(ages[1]) \o JoinAgesNoSeparator(Tail(ages))

\* depAges.join(",")
RECURSIVE JoinAges(_)
JoinAges(ages) ==
  IF ages = <<>> THEN <<>>
  ELSE IF Len(ages) = 1 THEN NumberText(ages[1])
  ELSE NumberText(ages[1]) \o <<",">> \o JoinAges(Tail(ages))

\* text.split(","): the pieces of text between the commas
RECURSIVE SplitCommas(_, _)
SplitCommas(text, piece) ==
  IF text = <<>> THEN <<piece>>
  ELSE IF Head(text) = "," THEN <<piece>> \o SplitCommas(Tail(text), <<>>)
  ELSE SplitCommas(Tail(text), Append(piece, Head(text)))

\* depsStr.split(",").map(a => parseInt(a, 10)).filter(a => !isNaN(a))
RECURSIVE ParseAges(_)
ParseAges(pieces) ==
  IF pieces = <<>> THEN <<>>
  ELSE LET n == IF Head(pieces) = <<>> THEN Null ELSE parseInt(Some(Head(pieces)))
       IN  IF n = Null THEN ParseAges(Tail(pieces))
           ELSE <<Val(n)>> \o ParseAges(Tail(pieces))

\* the states of the forms considered, of STATES
STATES == {"CA", "PA"}

\* counties[state].sort()
Counties(state) ==
  IF state = "CA" THEN <<"Alameda County", "Los Angeles County">>
  ELSE IF state = "PA" THEN <<"Lebanon County">>
  ELSE <<>>

\* const needsZipCode = ...
needsZipCode(form) ==
  form.state = "CA" /\ form.county = "Los Angeles County"

\* formData.dependent_ages.slice(0, numDeps).map(age => age === "" ? 10 : age)
DepAges(ages, numDeps) ==
  [i \in 1..(IF numDeps < Len(ages) THEN numDeps ELSE Len(ages)) |->
     IF ages[i] = Null THEN 10 ELSE Val(ages[i])]

\* submitData of handleSubmit
SubmitData(form) ==
  LET ageHead == IF form.age_head = Null THEN 40 ELSE Val(form.age_head)
      ageSpouse == IF form.age_spouse = Null THEN 40 ELSE Val(form.age_spouse)
      numDeps == IF form.num_dependents = Null THEN 0
                 ELSE Val(form.num_dependents)
  IN  [age_head |-> ageHead,
       age_spouse |-> IF form.married THEN Some(ageSpouse) ELSE Null,
       dependent_ages |-> DepAges(form.dependent_ages, numDeps),
       state |-> form.state,
       county |-> form.county,
       zip_code |-> IF form.zip_code = "" THEN Null ELSE Some(form.zip_code),
       show_ira |-> form.show_ira,
       show_700fpl |-> form.show_700fpl,
       show_additional_bracket |-> form.show_additional_bracket,
       show_simplified_bracket |-> form.show_simplified_bracket]

\* normalizedFormData of handleSubmit
NormalizedFormData(form) ==
  LET d == SubmitData(form)
  IN  [form EXCEPT
         !.age_head = Some(d.age_head),
         !.age_spouse = Some(IF form.age_spouse = Null THEN 40
                             ELSE Val(form.age_spouse)),
         !.dependent_ages = [i \in 1..Len(d.dependent_ages) |->
                               Some(d.dependent_ages[i])]]

\* buildShareableUrl(formData, includeAi): the parameters of the link, Null
\* for a parameter that is not set
buildShareableUrl(form, includeAi) ==
  LET ageHead == IF form.age_head = Null THEN 40 ELSE Val(form.age_head)
      ageSpouse == IF form.age_spouse = Null THEN 40 ELSE Val(form.age_spouse)
      depAges == [i \in 1..Len(form.dependent_ages) |->
                    IF form.dependent_ages[i] = Null THEN 10
                    ELSE Val(form.dependent_ages[i])]
  IN  [age |-> Some(NumberText(ageHead)),
       spouse |-> IF form.married THEN Some(NumberText(ageSpouse)) ELSE Null,
       deps |-> IF Len(depAges) > 0 THEN Some(JoinAges(depAges)) ELSE Null,
       state |-> Some(form.state),
       county |-> Some(form.county),
       zip |-> IF form.zip_code # "" THEN Some(form.zip_code) ELSE Null,
       ira |-> IF ~form.show_ira THEN Some("0") ELSE Null,
       fpl700 |-> IF ~form.show_700fpl THEN Some("0") ELSE Null,
       additional |-> IF form.show_additional_bracket THEN Some("1") ELSE Null,
       simplified |-> IF form.show_simplified_bracket THEN Some("1") ELSE Null,
       ai |-> IF includeAi THEN Some("1") ELSE Null]

\* The object Calculator keeps as formData is the submitData it was called
\* with.  As buildShareableUrl reads it: it has no married property
\* (undefined, falsy), its age_spouse and zip_code are null or a value
\* (never ""), its ages are numbers.
AsFormData(data) ==
  [age_head |-> Some(data.age_head),
   age_spouse |-> data.age_spouse,
   married |-> FALSE,
   dependent_ages |-> [i \in 1..Len(data.dependent_ages) |->
                         Some(data.dependent_ages[i])],
   state |-> data.state,
   county |-> data.county,
   zip_code |-> IF data.zip_code = Null THEN "" ELSE Val(data.zip_code),
   show_ira |-> data.show_ira,
   show_700fpl |-> data.show_700fpl,
   show_additional_bracket |-> data.show_additional_bracket,
   show_simplified_bracket |-> data.show_simplified_bracket]

\* getFormDataFromUrl(): Null when the link has neither state nor age
getFormDataFromUrl(params) ==
  IF params.state = Null /\ params.age = Null THEN Null
  ELSE
    LET state == IF params.state = Null THEN "" ELSE Val(params.state)
        county == IF params.county = Null THEN "" ELSE Val(params.county)
        dependentAges ==
          IF params.deps = Null \/ params.deps = Some(<<>>) THEN <<>>
          ELSE ParseAges(SplitCommas(Val(params.deps), <<>>))
        orForty(n) == IF n = Null \/ n = Some(0) THEN Some(40) ELSE n
    IN  Some([age_head |-> orForty(parseInt(params.age)),
              age_spouse |-> orForty(parseInt(params.spouse)),
              married |-> params.spouse # Null,
              num_dependents |-> Some(Len(dependentAges)),
              dependent_ages |-> [i \in 1..Len(dependentAges) |->
                                    Some(dependentAges[i])],
              state |-> IF state \in STATES THEN state ELSE "",
              county |-> county,
              zip_code |-> IF params.zip = Null THEN "" ELSE Val(params.zip),
              show_ira |-> params.ira # Some("0"),
              show_700fpl |-> params.fpl700 # Some("0"),
              show_additional_bracket |-> params.additional = Some("1"),
              show_simplified_bracket |-> params.simplified = Some("1")])

\* the effect on formData.state: a county that is not of the state is
\* replaced by the state's first
CountyEffect(form) ==
  LET stateCounties == Counties(form.state)
  IN  IF stateCounties = <<>> THEN form
      ELSE IF \E i \in 1..Len(stateCounties) : stateCounties[i] = form.county
      THEN form
      ELSE [form EXCEPT !.county = stateCounties[1]]

\* the form of a page opened with the link: getInitialFormData (Null when it
\* falls back to random values) and the effects of the mount
FormOfLink(params) ==
  LET urlData == getFormDataFromUrl(params)
  IN  IF urlData = Null \/ Val(urlData).state = "" THEN Null
      ELSE Some(CountyEffect(Val(urlData)))

\* the request a page opened with the link submits
RequestOfLink(params) ==
  IF FormOfLink(params) = Null THEN Null
  ELSE Some(SubmitData(Val(FormOfLink(params))))

\* ages a numeric input accepts (min and max of the inputs) and samples
AdultAges == {Null, Some(18), Some(45)}

DependentAges == {Null, Some(0), Some(12)}

\* dependents in a form
MaxDependents == 2

\* The forms: the ZIP text stays in the form when the state or county
\* changes, and the spouse age when married is unchecked; dependent_ages
\* has num_dependents entries (the effect on num_dependents) and the county
\* is one of the state (the effect on state).
InitForm ==
  /\ InitComponent
  /\ ~autoShow
  /\ ~storageDisabled
  /\ wire = <<>>
  /\ cut = 0
  /\ feeds = <<>>
  /\ keying = <<>>
  /\ \E st \in STATES, c \in 1..2 :
       /\ c <= Len(Counties(st))
       /\ \E a \in AdultAges, sp \in {Null, Some(30)}, m \in BOOLEAN,
             k \in 0..MaxDependents, z \in {"", "90001"},
             t1 \in BOOLEAN, t2 \in BOOLEAN, t3 \in BOOLEAN :
            \E d \in [1..k -> DependentAges], n \in {Null, Some(k)} :
              /\ (n = Null => k = 0)
              /\ sharing =
                   [form |-> [age_head |-> a, age_spouse |-> sp, married |-> m,
                              num_dependents |-> n, dependent_ages |-> d,
                              state |-> st, county |-> Counties(st)[c],
                              zip_code |-> z, show_ira |-> t1,
                              show_700fpl |-> t2,
                              show_additional_bracket |-> t3,
                              show_simplified_bracket |-> FALSE],
                    submitted |-> Null, opened |-> Null, explained |-> Null]

\* handleSubmit: the request handed to onCalculate and the link written by
\* updateUrl(normalizedFormData)
FormSubmit ==
  /\ sharing.submitted = Null
  /\ AnyToggle(sharing.form)
  /\ sharing' = [sharing EXCEPT !.submitted =
                   Some([request |-> SubmitData(sharing.form),
                         url |-> buildShareableUrl(
                                   NormalizedFormData(sharing.form), FALSE)])]
  /\ UNCHANGED <<component, mount, wire, cut, feeds, keying>>

\* the link written at submit is opened in a new page and its form submitted
OpenLink ==
  /\ sharing.submitted # Null
  /\ sharing.opened = Null
  /\ sharing' = [sharing EXCEPT !.opened =
                   Some([request |-> RequestOfLink(Val(sharing.submitted).url)])]
  /\ UNCHANGED <<component, mount, wire, cut, feeds, keying>>

\* handleExplainWithAI(event) succeeded: the link it writes, and the request
\* a page opened with that link submits
ExplainLink ==
  /\ sharing.submitted # Null
  /\ sharing.explained = Null
  /\ LET url == buildShareableUrl(AsFormData(Val(sharing.submitted).request), TRUE)
     IN  sharing' = [sharing EXCEPT !.explained =
                       Some([url |-> url, request |-> RequestOfLink(url)])]
  /\ UNCHANGED <<component, mount, wire, cut, feeds, keying>>

NextForm ==
  \/ FormSubmit
  \/ OpenLink
  \/ ExplainLink

SpecForm == InitForm /\ [][NextForm]_vars

(***************************************************************************)
(* Claims.                                                                 *)
(***************************************************************************)
\* the invocations that were running before the step and are not the latest
\* after it
Stale(i) == i \in 1..Len(calls) /\ i < Len(calls')

\* C1: last request wins.  Once a later handleCalculate has started, no step
\* of an earlier invocation writes results, progress, error or loading.
C1_LastRequestWins ==
  [][\A i \in 1..Len(calls) :
       (Stale(i) /\ calls'[i] # calls[i]) => UNCHANGED observable]_vars

\* C2: fallback correctness.  No invocation issues the request to
\* /api/calculate more than once, and the step that receives its 2xx
\* response publishes the response body as results, publishes no error and
\* passes the body to setInCache under the key of the request: the store
\* holds it under that key with the current time, unless setItem threw.
C2_FallbackPublishesAndCaches ==
  [][\A i \in 1..Len(calls) :
       /\ calls'[i].fallbackFetches <= 1
       /\ (calls[i].pc = "fallback_fetch" /\ calls'[i].fallbackResult # Null) =>
            LET key == getCacheKey(calls[i].data)
                body == Val(calls'[i].fallbackResult)
            IN  /\ calls[i].fallbackFetches = 1
                /\ calls'[i].pc = "done"
                /\ results' = Some(body)
                /\ error' = Null
                /\ store' = IF calls'[i].rejectedWrites > calls[i].rejectedWrites
                            THEN store
                            ELSE [store EXCEPT ![key] =
                                    Some([data |-> body, timestamp |-> now])]]_vars

\* C2 witness: a stream failed after two progress events and no completion,
\* the fallback answered, and its body is published and cached.
C2_Witness ==
  \E i \in 1..Len(calls) :
    /\ calls[i].pc = "done"
    /\ calls[i].progressEvents = 2
    /\ calls[i].completeRecords = 0
    /\ calls[i].fallbackFetches = 1
    /\ calls[i].fallbackResult # Null
    /\ results = calls[i].fallbackResult
    /\ error = Null
    /\ store[getCacheKey(calls[i].data)] # Null
    /\ Val(store[getCacheKey(calls[i].data)]).data = Val(results)

\* C3: a record with step "error" stops the processing of the stream and
\* makes the invocation issue the fallback request.
C3_ErrorRecordFallsBack ==
  \A i \in 1..Len(calls) :
    calls[i].errorRecords > 0 =>
      calls[i].pc # "reading" /\ calls[i].fallbackFetches = 1

\* C4: an invocation whose stream ended with no completion record processed
\* does not return normally: it has issued the fallback request.
C4_IncompleteStreamFallsBack ==
  \A i \in 1..Len(calls) :
    (calls[i].pc = "done" /\ ~calls[i].hit /\ calls[i].completeRecords = 0) =>
      calls[i].fallbackFetches = 1

\* C5: chunk-boundary robustness.  A stream of records fed to the read loop
\* in two chunks, cut at any position, leaves what it leaves when fed as one
\* chunk: the same events decoded in the same order, the same progress,
\* results and store, and the same text in the buffer.
C5_ChunkBoundary ==
  (feeds # <<>> /\ feeds.whole # Null /\ feeds.parts # Null) =>
    Val(feeds.parts) = Val(feeds.whole)

\* C5 witness: a stream of two records, the second a completion, cut between
\* the two newlines of the first delimiter, fed both ways.
C5_Witness ==
  /\ feeds # <<>> /\ feeds.whole # Null /\ feeds.parts # Null
  /\ wire[cut] = NL /\ wire[cut + 1] = NL /\ cut + 1 < Len(wire)
  /\ Len(Val(feeds.parts).rs.decoded) = 2
  /\ Val(feeds.parts).rs.results # Null
  /\ Val(feeds.left).rs.decoded = <<>>

\* C6: cache hit.  handleCalculate invoked when the store holds, under the
\* key of the request, an item no older than CACHE_TTL publishes the stored
\* data, reports progress 100, sets loading false and returns: the
\* invocation issues no request, then or later.
C6_CacheHit ==
  [][/\ Len(calls') = Len(calls) + 1 =>
          LET n == Len(calls')
              key == getCacheKey(calls'[n].data)
          IN  (/\ store[key] # Null
               /\ ~storageDisabled
               /\ now - Val(store[key]).timestamp <= CACHE_TTL) =>
                /\ results' = Some(Val(store[key]).data)
                /\ progress' = Progress(100, "Using cached results")
                /\ loading' = FALSE
                /\ calls'[n].hit
                /\ calls'[n].pc = "done"
                /\ calls'[n].fallbackFetches = 0
     /\ \A i \in 1..Len(calls) : calls[i].hit => calls'[i] = calls[i]]_vars

\* C6 witness: a request that differs from the first one in its toggles only
\* is served, CACHE_TTL after the first one's result was stored, from the
\* store.
C6_Witness ==
  /\ Len(calls) = 2
  /\ calls[1].data # calls[2].data
  /\ getCacheKey(calls[1].data) = getCacheKey(calls[2].data)
  /\ calls[1].published # Null /\ ~calls[1].hit
  /\ calls[2].hit /\ calls[2].entryAge = Some(CACHE_TTL)
  /\ calls[2].fallbackFetches = 0 /\ calls[2].pc = "done"
  /\ results = calls[1].published
  /\ progress = Progress(100, "Using cached results")
  /\ ~loading

\* C7: expiry.  Items are stamped with the time of their write.  A lookup
\* that finds an item of age at most CACHE_TTL returns its data and leaves
\* the store as it is; a lookup that finds an older item reports it absent
\* and removes that key, and no other, from the store.
C7_Expiry ==
  [][/\ \A k \in CacheKeys :
          (store'[k] # Null /\ store'[k] # store[k]) =>
            Val(store'[k]).timestamp = now
     /\ Len(calls') = Len(calls) + 1 =>
          LET n == Len(calls')
              key == getCacheKey(calls'[n].data)
          IN  (store[key] # Null /\ ~storageDisabled) =>
                IF now - Val(store[key]).timestamp <= CACHE_TTL
                THEN /\ calls'[n].published = Some(Val(store[key]).data)
                     /\ store' = store
                ELSE /\ calls'[n].published = Null
                     /\ ~calls'[n].hit
                     /\ store' = [store EXCEPT ![key] = Null]]_vars

\* C7 witness: a lookup one millisecond past CACHE_TTL has missed and removed
\* the item.
C7_Witness ==
  /\ Len(calls) = 2
  /\ calls[2].entryAge = Some(CACHE_TTL + 1)
  /\ ~calls[2].hit
  /\ calls[2].pc = "stream_fetch"
  /\ store[getCacheKey(calls[2].data)] = Null

\* C8: cache transparency.  An invocation served from the store publishes
\* the outcome (result and error) of the invocation before it for the same
\* request, which was served by the calculation service and whose writes
\* the store accepted.
C8_CacheTransparent ==
  \A j \in 2..Len(calls) :
    LET i == j - 1
    IN  (/\ calls[i].data = calls[j].data
         /\ ~calls[i].hit /\ calls[i].pc = "done"
         /\ calls[i].rejectedWrites = 0
         /\ calls[j].hit) =>
          /\ calls[j].published = calls[i].published
          /\ calls[j].publishedError = calls[i].publishedError

\* C9: the latch.  The latch is never reset; the effect calls
\* handleExplainWithAI only when the page was opened with ai=1 and the latch
\* is clear, and sets the latch in that same run; no calculation has two
\* explanation requests issued by the effect, and once the latch is set
\* every further explanation request comes from the Explain button.
C9_Latch ==
  [][/\ aiTriggeredRef => aiTriggeredRef'
     /\ \A k \in 1..Len(explains') :
          (k > Len(explains) /\ explains'[k].auto) =>
            /\ autoShow
            /\ ~aiTriggeredRef
            /\ aiTriggeredRef'
            /\ \A j \in 1..Len(explains) :
                 ~(explains[j].auto /\ explains[j].calc = explains'[k].calc)
     /\ \A k \in 1..Len(explains') :
          (k > Len(explains) /\ aiTriggeredRef) => ~explains'[k].auto]_vars

\* C9 witness: the explanation requested by the effect has failed, the page
\* still shows the results, and the latch is set.
C9_Witness ==
  /\ autoShow
  /\ Len(explains) = 1
  /\ explains[1].auto /\ explains[1].pc = "done"
  /\ aiExplanation = Null /\ error # Null
  /\ results # Null /\ ~loading /\ ~aiLoading
  /\ aiTriggeredRef

\* the explanation requests the effect issued for calculation n
AutoExplains(n) ==
  {k \in 1..Len(explains) : explains[k].auto /\ explains[k].calc = n}

\* the calculations that have published a result
Successful == {n \in 1..Len(calls) : calls[n].published # Null}

\* nothing is in flight and no explanation is shown
Settled ==
  /\ ~loading /\ ~aiLoading /\ aiExplanation = Null
  /\ \A n \in 1..Len(calls) : calls[n].pc = "done"
  /\ \A k \in 1..Len(explains) : explains[k].pc = "done"

\* C10 as stated: with ai=1 at mount, every calculation that published a
\* result has, once nothing is in flight, exactly one explanation request
\* issued by the effect.
C10_EverySuccessExplained ==
  (autoShow /\ Settled) =>
    \A n \in Successful : Cardinality(AutoExplains(n)) = 1

\* C10 amended: with ai=1 at mount, the first calculation to publish a
\* result has exactly one explanation request issued by the effect, and the
\* later calculations have none.
C10_FirstSuccessExplained ==
  autoShow =>
    \A n \in Successful :
      Cardinality(AutoExplains(n)) =
        IF \A m \in Successful : n <= m THEN 1 ELSE 0

\* C10 witness: two calculations have published results and the effect has
\* issued one explanation request, for the first.
C10_Witness ==
  /\ autoShow
  /\ Len(calls) = 2
  /\ Successful = {1, 2}
  /\ calls[2].pc = "done"
  /\ AutoExplains(1) # {} /\ AutoExplains(2) = {}
  /\ \A k \in 1..Len(explains) : explains[k].pc = "done"
  /\ aiExplanation = Null /\ ~aiLoading

\* the key fields on which two request objects differ
KeyDiff(o1, o2) == {f \in KeyFields : Prop(o1, f) # Prop(o2, f)}

Derived == keying # <<>> /\ keying.keys # Null

\* C11: key determinism.  Two request objects with equal values in the six
\* key fields get the same key, whatever the insertion order of their
\* properties and whatever their other properties hold.
C11_KeyDeterminism ==
  Derived =>
    (KeyDiff(keying.r1, keying.r2) = {} =>
       Val(keying.keys)[1] = Val(keying.keys)[2])

\* C11 witness: keys were derived from two objects with the same key fields,
\* different insertion orders and different toggles.
C11_Witness ==
  /\ Derived
  /\ KeyDiff(keying.r1, keying.r2) = {}
  /\ keying.r1[1][1] # keying.r2[1][1]
  /\ Prop(keying.r1, "show_ira") # Prop(keying.r2, "show_ira")
  /\ Val(keying.keys)[1] = Val(keying.keys)[2]

\* C12: key sensitivity.  Two request objects that differ in a key field get
\* different keys; two that differ in policy toggles only get the same key.
C12_KeySensitivity ==
  Derived =>
    /\ KeyDiff(keying.r1, keying.r2) # {} =>
         Val(keying.keys)[1] # Val(keying.keys)[2]
    /\ (/\ KeyDiff(keying.r1, keying.r2) = {}
        /\ \E f \in ToggleFields : Prop(keying.r1, f) # Prop(keying.r2, f)) =>
         Val(keying.keys)[1] = Val(keying.keys)[2]

\* C12 witness: keys were derived from two objects that differ in the postal
\* code alone, one of them having none.
C12_Witness ==
  /\ Derived
  /\ KeyDiff(keying.r1, keying.r2) = {"zip_code"}
  /\ Prop(keying.r1, "zip_code") = Null
  /\ \A f \in ToggleFields : Prop(keying.r1, f) = Prop(keying.r2, f)
  /\ Val(keying.keys)[1] # Val(keying.keys)[2]

\* C13: a structured server error on the stream.  An invocation whose
\* stream request got a non-2xx response with a detail issues no fallback
\* request and ends with that detail published as its error.
C13_ServerErrorSurfaces ==
  \A i \in 1..Len(calls) :
    calls[i].streamDetail # Null =>
      /\ calls[i].fallbackFetches = 0
      /\ calls[i].pc = "done"
      /\ calls[i].publishedError = calls[i].streamDetail

\* C14: validation.  An invocation for a request with no policy toggle set
\* has returned with an error, having read no cache item and issued no
\* request.
C14_NoToggleRejected ==
  \A i \in 1..Len(calls) :
    ~AnyToggle(calls[i].data) =>
      /\ calls[i].pc = "done"
      /\ calls[i].publishedError # Null
      /\ calls[i].published = Null
      /\ calls[i].fallbackFetches = 0

\* C15: completion is terminal.  A turn of the read loop of an invocation
\* that has processed a completion record changes neither results nor
\* progress nor the store.
C15_CompleteIsTerminal ==
  [][\A i \in 1..Len(calls) :
       (/\ calls[i].completeRecords > 0
        /\ calls[i].pc = "reading" /\ calls'[i].pc = "reading"
        /\ calls'[i].reads > calls[i].reads) =>
         UNCHANGED <<results, progress, store>>]_vars

\* C16: no fallback after a result.  An invocation that has processed a
\* completion record issues no fallback request.
C16_NoFallbackAfterComplete ==
  \A i \in 1..Len(calls) :
    calls[i].completeRecords > 0 =>
      /\ calls[i].fallbackFetches = 0
      /\ calls[i].publishedError = Null

\* C17: malformed records are skipped.  The read loop leaves, after a stream
\* with records whose payload is not JSON, what it leaves after the stream
\* without them: the same events in the same order, the same progress,
\* results and store, and no error thrown out of the loop.
C17_MalformedSkipped ==
  (feeds # <<>> /\ "clean" \in DOMAIN feeds
     /\ feeds.whole # Null /\ feeds.clean # Null) =>
    Val(feeds.whole) = Val(feeds.clean)

\* C17 witness: a progress record, a malformed record and a completion
\* record; the completion's result is published and stored.
C17_Witness ==
  /\ feeds # <<>> /\ "clean" \in DOMAIN feeds
  /\ feeds.whole # Null /\ feeds.clean # Null
  /\ feeds.texts = <<TextP10, TextBad, TextC1>>
  /\ Len(Val(feeds.whole).rs.decoded) = 2
  /\ Val(feeds.whole).rs.results = Some(Result1)
  /\ Val(feeds.whole).rs.store[FeedKey] # Null

\* C19: cache writes are best-effort.  In the step in which setItem throws,
\* after a completion record or a 2xx fallback response, the result is
\* published, error and the store stay as they are, and no fallback request
\* is issued; the invocation goes on reading or returns, and when it has
\* returned loading is false.
C19_WriteFailureIgnored ==
  [][\A i \in 1..Len(calls) :
       calls'[i].rejectedWrites > calls[i].rejectedWrites =>
         /\ results' # Null
         /\ results' = calls'[i].published
         /\ error' = error
         /\ calls'[i].publishedError = calls[i].publishedError
         /\ store' = store
         /\ calls'[i].fallbackFetches = calls[i].fallbackFetches
         /\ calls'[i].pc = IF calls[i].pc = "reading" THEN "reading" ELSE "done"
         /\ calls'[i].pc = "done" => ~loading']_vars

\* C19 witness: the store works, the write of the stream's result and the
\* write of the fallback's result were both rejected, and the invocation
\* returned with the result and without an error.
C19_Witness ==
  \E i \in 1..Len(calls) :
    /\ ~storageDisabled
    /\ calls[i].rejectedWrites = 2
    /\ calls[i].completeRecords = 1 /\ calls[i].fallbackResult # Null
    /\ calls[i].pc = "done"
    /\ results = calls[i].fallbackResult
    /\ error = Null
    /\ ~loading
    /\ store[getCacheKey(calls[i].data)] = Null

\* C20: a failed fallback.  An invocation that published an error published
\* the server's detail or a generic message, published no result, and left
\* no item under its key.
C20_FallbackFailure ==
  \A i \in 1..Len(calls) :
    calls[i].publishedError # Null =>
      /\ calls[i].publishedError \in
           {Some("Invalid county"), Some("Calculation failed"),
            Some("An error occurred. Please try again.")}
      /\ calls[i].published = Null
      /\ results = Null
      /\ store[getCacheKey(calls[i].data)] = Null

\* C18: malformed items are misses.  An invocation that finds localStorage
\* throwing, or under its key an item that is not the JSON text of an
\* object with a data property and a numeric timestamp, is not served from
\* the store: it publishes no result and goes on to the stream request.
C18_MalformedIsMiss ==
  [][Len(calls') = Len(calls) + 1 =>
       LET n == Len(calls')
           key == getCacheKey(calls'[n].data)
       IN  (storageDisabled \/ (store[key] # Null /\ IsForeign(store[key]))) =>
             /\ ~calls'[n].hit
             /\ calls'[n].pc = "stream_fetch"
             /\ results' = Null]_vars

\* C21: a failed explanation.  The step in which an explanation request
\* fails sets error and clears aiLoading and pendingAiLoad; results,
\* formData, loading, progress, the store, the displayed explanation and the
\* calculations stay as they are.
C21_ExplainFailureFrame ==
  [][\A i \in 1..Len(explains) :
       (explains[i].pc = "fetch" /\ explains'[i].failed) =>
         /\ UNCHANGED <<results, formData, loading, progress, store,
                        aiExplanation, aiTriggeredRef, calls, now>>
         /\ error' # Null
         /\ ~aiLoading'
         /\ ~pendingAiLoad']_vars

\* C21 witness: an explanation requested with the button has failed while
\* the results it was built from are displayed and cached.
C21_Witness ==
  \E i \in 1..Len(explains) :
    /\ explains[i].failed /\ ~explains[i].auto
    /\ results = explains[i].results
    /\ formData # Null
    /\ store[getCacheKey(Val(formData))] # Null
    /\ error = Some("Failed to generate explanation")
    /\ ~aiLoading /\ ~loading

Abs(x) == IF x < 0 THEN -x ELSE x

\* v is the entry of values at the first grid income closest to x
IsNearest(v, x, grid, values) ==
  \E j \in 1..Len(grid) :
    /\ v = values[j]
    /\ \A m \in 1..Len(grid) : Abs(grid[j] - x) <= Abs(grid[m] - x)
    /\ \A m \in 1..(j - 1) : Abs(grid[m] - x) > Abs(grid[j] - x)

\* v is on the line between the entries of values at two adjacent grid
\* incomes that enclose x
IsInterpolated(v, x, grid, values) ==
  \E j \in 1..(Len(grid) - 1) :
    /\ grid[j] <= x /\ x <= grid[j + 1]
    /\ (v - values[j]) * (grid[j + 1] - grid[j]) =
         (values[j + 1] - values[j]) * (x - grid[j])

\* the explanation requests issued in this step
NewExplains == (Len(explains) + 1)..Len(explains')

\* C23 as stated: a request is issued only with results and formData, its
\* sample income is 3 x fpl, and its three values are interpolated at the
\* sample income between the points of the income grid.
C23_SampleInterpolated ==
  [][\A k \in NewExplains :
       LET q == explains'[k].request
           r == Val(explains'[k].results)
       IN  /\ results' # Null /\ formData' # Null
           /\ explains'[k].results = results'
           /\ q.sample_income = 3 * r.fpl
           /\ IsInterpolated(q.ptc_baseline_at_sample, q.sample_income,
                             r.income, r.ptc_baseline)
           /\ IsInterpolated(q.ptc_ira_at_sample, q.sample_income,
                             r.income, r.ptc_ira)
           /\ IsInterpolated(q.ptc_700fpl_at_sample, q.sample_income,
                             r.income, r.ptc_700fpl)]_vars

\* C23 amended: a request is issued only with results and formData, its
\* sample income is 3 x fpl, and its three values are the entries of the
\* scenario arrays at the grid income closest to the sample income (the
\* first such income when two are equally close), without interpolation.
C23_SampleNearest ==
  [][\A k \in NewExplains :
       LET q == explains'[k].request
           r == Val(explains'[k].results)
       IN  /\ results' # Null /\ formData' # Null
           /\ explains'[k].results = results'
           /\ q.sample_income = 3 * r.fpl
           /\ IsNearest(q.ptc_baseline_at_sample, q.sample_income,
                        r.income, r.ptc_baseline)
           /\ IsNearest(q.ptc_ira_at_sample, q.sample_income,
                        r.income, r.ptc_ira)
           /\ IsNearest(q.ptc_700fpl_at_sample, q.sample_income,
                        r.income, r.ptc_700fpl)]_vars

\* C23 witness: a request built from Result2, whose sample income 36 lies
\* between the grid incomes 30 and 60, carries the values at 30.
C23_Witness ==
  \E k \in 1..Len(explains) :
    /\ explains[k].results = Some(Result2)
    /\ explains[k].request.sample_income = 36
    /\ explains[k].request.ptc_baseline_at_sample = 2
    /\ explains[k].request.ptc_ira_at_sample = 5
    /\ explains[k].request.ptc_700fpl_at_sample = 6

\* C24: no stale explanation.  Whenever an explanation is displayed, results
\* exist and the explanation is the one for the request built from them.
C24_NoStaleExplanation ==
  aiExplanation # Null =>
    /\ results # Null
    /\ formData # Null
    /\ aiExplanation =
         Some(Explanation(ExplainRequest(Val(results), Val(formData))))

\* C25: outcome totality.  When the one invocation has returned and loading
\* is false, results or error is set.
C25_OutcomeTotal ==
  (Len(calls) = 1 /\ calls[1].pc = "done" /\ ~loading) =>
    (results # Null \/ error # Null)

\* the invocations that have not returned
InFlight == {i \in 1..Len(calls) : calls[i].pc # "done"}

\* C26: single flight through the form.  While an invocation has not
\* returned loading is true, an invocation starts only when loading is false
\* and every earlier one has returned, and at most one is in flight.
C26_SingleFlight ==
  [][/\ Len(calls') > Len(calls) => (~loading /\ InFlight = {})
     /\ InFlight # {} => loading
     /\ Cardinality(InFlight) <= 1]_vars

\* C26 witness: a second calculation is reading its stream, loading is true
\* and the first has returned.
C26_Witness ==
  /\ Len(calls) = 2
  /\ calls[1].pc = "done" /\ ~calls[1].hit
  /\ calls[2].pc = "reading"
  /\ loading

\* C27: cache integrity.  Whatever the interleaving, an item that appears
\* under a key was written by an invocation whose request has that key and
\* holds the result that invocation received in that step, stamped with the
\* time of the step.
C27_CacheIntegrity ==
  [][\A k \in CacheKeys :
       (store'[k] # store[k] /\ store'[k] # Null) =>
         \E i \in 1..Len(calls) :
           /\ calls'[i] # calls[i]
           /\ getCacheKey(calls[i].data) = k
           /\ calls'[i].published = Some(Val(store'[k]).data)
           /\ Val(store'[k]).timestamp = now]_vars

\* C27 witness: two overlapping invocations for requests with different
\* keys; the later one has returned, the earlier one has not, and each key
\* holds the result its invocation received, the two results differing.
C27_Witness ==
  /\ Len(calls) = 2
  /\ getCacheKey(calls[1].data) # getCacheKey(calls[2].data)
  /\ calls[1].pc = "fallback_fetch" /\ calls[2].pc = "done"
  /\ calls[2].fallbackResult # Null
  /\ calls[1].published # calls[2].published
  /\ \A i \in 1..2 :
       /\ store[getCacheKey(calls[i].data)] # Null
       /\ Some(Val(store[getCacheKey(calls[i].data)]).data) = calls[i].published

\* C28: a hit leaves the store alone.  A lookup that is served from the
\* store changes nothing in it, and any lookup leaves every key but its own
\* as it is.
C28_HitFrame ==
  [][Len(calls') = Len(calls) + 1 =>
       LET n == Len(calls')
           key == getCacheKey(calls'[n].data)
       IN  /\ calls'[n].hit => store' = store
           /\ \A k \in CacheKeys \ {key} : store'[k] = store[k]]_vars

\* C28 witness: an item written at time 0 was read at time 1 and still
\* carries the time 0.
C28_Witness ==
  /\ Len(calls) = 2
  /\ calls[2].hit /\ calls[2].entryAge = Some(1)
  /\ now = 1
  /\ Val(store[getCacheKey(calls[2].data)]).timestamp = 0

\* C22: once the link written at submit has been opened and its decoded
\* form submitted, the request it submits has the key fields and toggles of
\* the request the form submitted, and so the same cache key.
C22_RoundTrip ==
  sharing.opened # Null =>
    LET r1 == Val(sharing.submitted).request
        r2 == Val(sharing.opened).request
    IN  /\ r2 # Null
        /\ Val(r2) = r1
        /\ getCacheKey(Val(r2)) = getCacheKey(r1)

C22_Witness ==
  /\ sharing.opened # Null
  /\ sharing.form.married
  /\ sharing.form.age_head = Null
  /\ sharing.form.zip_code # ""
  /\ ~sharing.form.show_ira
  /\ Len(sharing.form.dependent_ages) = 2
  /\ sharing.form.dependent_ages[1] = Some(0)
  /\ sharing.form.dependent_ages[2] = Null
  /\ Val(Val(sharing.opened).request).dependent_ages = <<0, 10>>
  /\ Val(Val(sharing.opened).request).age_spouse = Some(30)

\* C29: the link written after a successful explanation asked for by the
\* user has ai=1 and otherwise the parameters of the link written at
\* submit, and a page opened with it submits a request with the cache key
\* of the calculated request.
C29_ExplainLinkSameHousehold ==
  sharing.explained # Null =>
    LET s == Val(sharing.submitted)
        e == Val(sharing.explained)
    IN  /\ e.url = [s.url EXCEPT !.ai = Some("1")]
        /\ e.request # Null
        /\ getCacheKey(Val(e.request)) = getCacheKey(s.request)

\* C30: the request handleSubmit builds depends on the visible fields only:
\* no spouse age unless married, the first num_dependents ages, a ZIP code
\* only when the ZIP field is shown, and 40, 0 and 10 for empty numeric
\* inputs.
C30_VisibleFieldsOnly ==
  sharing.submitted # Null =>
    LET f == sharing.form
        r == Val(sharing.submitted).request
        n == IF f.num_dependents = Null THEN 0 ELSE Val(f.num_dependents)
    IN  /\ ~f.married => r.age_spouse = Null
        /\ f.married => r.age_spouse = (IF f.age_spouse = Null THEN Some(40)
                                        ELSE f.age_spouse)
        /\ r.age_head = (IF f.age_head = Null THEN 40 ELSE Val(f.age_head))
        /\ Len(r.dependent_ages) = n
        /\ \A i \in 1..n :
             r.dependent_ages[i] = (IF f.dependent_ages[i] = Null THEN 10
                                    ELSE Val(f.dependent_ages[i]))
        /\ r.zip_code # Null => needsZipCode(f)

====
